---- MODULE Spec2Model ----
(***************************************************************************)
(* Model of taiga/auth/api.py: the AuthViewSet request handlers            *)
(* `register` (POST /auth/register) and `create` (POST /auth, login).      *)
(*                                                                         *)
(* One request is processed at a time, line by line.  Every step of a      *)
(* handler appends one event to `trace`: the call it makes, the arguments  *)
(* it passes, what the call returned and the exception, if any, that the   *)
(* step ends the request with.  The collaborators that are not part of     *)
(* api.py (permission check, serializers, services, the GitHub connector)  *)
(* answer nondeterministically: they return a value or raise.              *)
(***************************************************************************)
EXTENDS Integers, Sequences, FiniteSets, TLC

VARIABLES
    PUBLIC_REGISTER_ENABLED, \* settings.PUBLIC_REGISTER_ENABLED
    pc,                      \* position of the handler in the current request
    action,                  \* "register" or "create": the handler that runs
    DATA,                    \* request.DATA, the payload
    passes,                  \* serializer classes whose is_valid() accepts DATA
    trace,                   \* the steps of this request so far
    register_type,           \* local of _private_register
    data,                    \* local `data` (parsed data)
    user,                    \* local `user`
    github_me,               \* locals (email, user_info) of _github_login
    response                 \* what the request ended with

vars == <<PUBLIC_REGISTER_ENABLED, pc, action, DATA, passes, trace,
          register_type, data, user, github_me, response>>

-----------------------------------------------------------------------------
(* Bounds of the model *)

NumUsers == 2
NumGithubAccounts == 2

(* Program constants *)

HTTP_200_OK == 200
HTTP_201_CREATED == 201

-----------------------------------------------------------------------------
(* Values *)

\* Every value of a payload or of a GitHub account is a pair <<text, number>>.
Str(s) == <<s, 0>>
\* JSON true / false
Bool(b) == <<"bool", IF b THEN 1 ELSE 0>>

\* Python's None, and the marker of a key that is not in the payload.
None == Str("None")
Absent == Str("<absent>")

\* request.DATA.get(key, None)
Get(d, key) == IF d[key] = Absent THEN None ELSE d[key]

\* The `type` values the handlers know, and one they do not.
RegisterTypes == {Str("public"), Str("private")}
LoginTypes == {Str("normal"), Str("github")}
TypeField == {Absent, Str("other")} \cup RegisterTypes \cup LoginTypes
\* JSON true / false, a value that is not a boolean, or no `existing` key.
ExistingField == {Absent, Bool(TRUE), Bool(FALSE), Str("yes")}

Payloads ==
    [type     : TypeField,
     existing : ExistingField,
     username : {Absent, <<"username", 1>>},
     password : {Absent, <<"password", 1>>},
     code     : {Absent, <<"code", 1>>},
     token    : {Absent, <<"token", 1>>}]

EmptyPayload ==
    [type |-> Absent, existing |-> Absent, username |-> Absent,
     password |-> Absent, code |-> Absent, token |-> Absent]

SerializerClasses ==
    {"PublicRegisterSerializer",
     "PrivateRegisterForExistingUserSerializer",
     "PrivateRegisterForNewUserSerializer"}

Users == 1..NumUsers
NoUser == 0

\* What github.me(code) returns: (email, user_info)
GithubAccounts ==
    { [email     |-> <<"gh_email", i>>,
       user_info |-> [username  |-> <<"gh_username", i>>,
                      full_name |-> <<"gh_full_name", i>>,
                      id        |-> <<"gh_id", i>>,
                      bio       |-> <<"gh_bio", i>>]] : i \in 1..NumGithubAccounts }
NoAccount == [email |-> None,
              user_info |-> [username |-> None, full_name |-> None,
                             id |-> None, bio |-> None]]

\* Exceptions
NoExc == [exc |-> "none", detail |-> "none"]
Exc(cls, detail) == [exc |-> cls, detail |-> detail]

\* Details carried by the exceptions the services raise.
Details == {"duplicate email", "duplicate username"}

\* Exceptions a service call may raise.
ServiceErrors == {Exc(c, d) : c \in {"IntegrityError", "WrongArguments"}, d \in Details}

NoResponse == [kind |-> "none"]
Raise(e) == [kind |-> "raise", exc |-> e.exc, detail |-> e.detail]
Response(d, st) == [kind |-> "response", data |-> d, status |-> st]

NoData == [cls |-> "none"]
NoArgs == [none |-> None]

\* What a step's call returned: a user, or the pair of github.me.
NoResult == [user |-> NoUser, account |-> NoAccount]
Returned(u) == [user |-> u, account |-> NoAccount]

\* One step of a handler: the call it makes, its arguments, what it returned
\* and the exception the step ends the request with (NoExc if none).
Event(fn, args, result, raised) ==
    [fn |-> fn, args |-> args, result |-> result, raised |-> raised]

-----------------------------------------------------------------------------
Init ==
    /\ PUBLIC_REGISTER_ENABLED \in BOOLEAN
    /\ pc = "idle"
    /\ action = "none"
    /\ DATA = EmptyPayload
    /\ passes = {}
    /\ trace = <<>>
    /\ register_type = "none"
    /\ data = NoData
    /\ user = NoUser
    /\ github_me = NoAccount
    /\ response = NoResponse

-----------------------------------------------------------------------------
(* Collaborators of api.py *)

\* serializers.BooleanField() of the ad-hoc serializer: the field is required
\* and must be a boolean.
BooleanField_is_valid(d) == d.existing \in {Bool(TRUE), Bool(FALSE)}

\* make_auth_response_data(user): the response payload derived from the user.
make_auth_response_data(u) == [auth_token |-> <<"auth_token", u>>, id |-> u]

-----------------------------------------------------------------------------
(* Module-level functions of api.py *)

\* _parse_data(data, cls=...): serializer = cls(data=data); raise
\* RequestValidationError if not serializer.is_valid(); return serializer.data
_parse_data(d, cls) ==
    IF cls \notin passes
        THEN [raised |-> Exc("RequestValidationError", cls), data |-> NoData]
        ELSE [raised |-> NoExc, data |-> [cls |-> cls, fields |-> d]]

parse_public_register_data(d) == _parse_data(d, "PublicRegisterSerializer")

parse_private_register_for_existing_user_data(d) ==
    _parse_data(d, "PrivateRegisterForExistingUserSerializer")

parse_private_register_for_new_user_data(d) ==
    _parse_data(d, "PrivateRegisterForNewUserSerializer")

\* RegisterTypeEnum
RegisterTypeEnum == {"new_user", "existing_user"}

\* parse_register_type without the is_valid() test: anything but true reads
\* as false.
parse_register_type_Lenient(userdata) ==
    IF userdata.existing = Bool(TRUE)
        THEN [raised |-> NoExc, value |-> "existing_user"]
        ELSE [raised |-> NoExc, value |-> "new_user"]

parse_register_type(userdata) ==
    IF ~BooleanField_is_valid(userdata)
        THEN [raised |-> Exc("RequestValidationError", "existing"), value |-> "none"]
        ELSE IF userdata.existing = Bool(TRUE)
            THEN [raised |-> NoExc, value |-> "existing_user"]
            ELSE [raised |-> NoExc, value |-> "new_user"]

-----------------------------------------------------------------------------
(* A request arrives *)

request == <<PUBLIC_REGISTER_ENABLED, action, DATA, passes>>
locals == <<register_type, data, user, github_me>>

\* The step at `pc` makes the call `e` and goes on at `next`.
Step(e, next) ==
    /\ trace' = Append(trace, e)
    /\ pc' = next
    /\ response' = response

\* The step at `pc` makes the call `e` and the request ends with e.raised.
Fail(e) ==
    /\ trace' = Append(trace, e)
    /\ pc' = "done"
    /\ response' = Raise(e.raised)

Receive ==
    /\ pc = "idle"
    /\ \E a \in {"register", "create"}, d \in Payloads, p \in SUBSET SerializerClasses :
        /\ action' = a
        /\ DATA' = d
        /\ passes' = p
        /\ pc' = a
    /\ trace' = <<>>
    /\ register_type' = "none"
    /\ data' = NoData
    /\ user' = NoUser
    /\ github_me' = NoAccount
    /\ response' = NoResponse
    /\ UNCHANGED PUBLIC_REGISTER_ENABLED

\* The response (or the error) goes to the transport layer; nothing of the
\* request is kept.
Deliver ==
    /\ pc = "done"
    /\ pc' = "idle"
    /\ action' = "none"
    /\ DATA' = EmptyPayload
    /\ passes' = {}
    /\ trace' = <<>>
    /\ register_type' = "none"
    /\ data' = NoData
    /\ user' = NoUser
    /\ github_me' = NoAccount
    /\ response' = NoResponse
    /\ UNCHANGED PUBLIC_REGISTER_ENABLED

-----------------------------------------------------------------------------
(* AuthViewSet.register *)

\* What the authorization check may raise: it refuses a request with
\* ForbiddenError.
PermissionErrors == {Exc("ForbiddenError", "permission denied")}

\* self.check_permissions(request, name, None)
check_permissions(name, next) ==
    LET call(raised) == Event("check_permissions", [action |-> name, obj |-> None],
                              NoResult, raised)
    IN  /\ \/ Step(call(NoExc), next)
           \/ \E e \in PermissionErrors : Fail(call(e))
        /\ UNCHANGED <<request, locals>>

register ==
    /\ pc = "register"
    /\ check_permissions("register", "register.type")

\* register_route with the final `raise` lost: an unknown type falls into the
\* last branch.
register_route_Fallthrough(type) ==
    IF type = Str("public") THEN "_public_register" ELSE "_private_register"

\* Where `type` sends a register request.
register_route(type) ==
    IF type = Str("public") THEN "_public_register"
    ELSE IF type = Str("private") THEN "_private_register"
    ELSE "BadRequest"

register_type_dispatch ==
    /\ pc = "register.type"
    /\ LET type == Get(DATA, "type")
           call(raised) == Event("request.DATA.get", [key |-> "type"], NoResult, raised)
       IN  IF register_route(type) = "BadRequest"
               THEN Fail(call(Exc("BadRequest", "invalid register type")))
               ELSE Step(call(NoExc), register_route(type))
    /\ UNCHANGED <<request, locals>>

-----------------------------------------------------------------------------
(* AuthViewSet._public_register *)

\* _public_register without the test of settings.PUBLIC_REGISTER_ENABLED.
_public_register_NoFlag ==
    /\ pc = "_public_register"
    /\ Step(Event("settings.PUBLIC_REGISTER_ENABLED", NoArgs, NoResult, NoExc),
            "_public_register.parse")
    /\ UNCHANGED <<request, locals>>

_public_register ==
    /\ pc = "_public_register"
    /\ LET call(raised) == Event("settings.PUBLIC_REGISTER_ENABLED", NoArgs,
                                 NoResult, raised)
       IN  IF ~PUBLIC_REGISTER_ENABLED
               THEN Fail(call(Exc("BadRequest", "Public register is disabled.")))
               ELSE Step(call(NoExc), "_public_register.parse")
    /\ UNCHANGED <<request, locals>>

_public_register_parse ==
    /\ pc = "_public_register.parse"
    /\ LET r == parse_public_register_data(DATA)
           call == Event("parse_public_register_data", [data |-> DATA], NoResult, r.raised)
       IN  IF r.raised # NoExc
               THEN Fail(call) /\ data' = data
               ELSE Step(call, "_public_register.call") /\ data' = r.data
    /\ UNCHANGED <<request, register_type, user, github_me>>

\* _public_register_call without the except clause.
_public_register_call_NoExcept ==
    /\ pc = "_public_register.call"
    /\ \/ \E u \in Users :
            /\ Step(Event("public_register", data, Returned(u), NoExc),
                    "_public_register.respond")
            /\ user' = u
       \/ \E e \in ServiceErrors :
            /\ Fail(Event("public_register", data, NoResult, e))
            /\ user' = user
    /\ UNCHANGED <<request, register_type, data, github_me>>

\* user = public_register(**data), inside try/except exc.IntegrityError
_public_register_call ==
    /\ pc = "_public_register.call"
    /\ \/ \E u \in Users :
            /\ Step(Event("public_register", data, Returned(u), NoExc),
                    "_public_register.respond")
            /\ user' = u
       \/ \E e \in ServiceErrors :
            /\ IF e.exc = "IntegrityError"
                   THEN /\ trace' = Append(trace, Event("public_register", data, NoResult, e))
                        /\ pc' = "done"
                        /\ response' = Raise(Exc("BadRequest", e.detail))
                   ELSE Fail(Event("public_register", data, NoResult, e))
            /\ user' = user
    /\ UNCHANGED <<request, register_type, data, github_me>>

\* data = make_auth_response_data(user); return Response(data, status=st)
respond(st) ==
    /\ trace' = Append(trace, Event("make_auth_response_data", [user |-> user],
                                    NoResult, NoExc))
    /\ data' = make_auth_response_data(user)
    /\ response' = Response(make_auth_response_data(user), st)
    /\ pc' = "done"
    /\ UNCHANGED <<request, register_type, user, github_me>>

_public_register_respond ==
    /\ pc = "_public_register.respond"
    /\ respond(HTTP_201_CREATED)

-----------------------------------------------------------------------------
(* AuthViewSet._private_register *)

\* register_type = parse_register_type(request.DATA)
_private_register ==
    /\ pc = "_private_register"
    /\ LET r == parse_register_type(DATA)
           call == Event("parse_register_type", [userdata |-> DATA], NoResult, r.raised)
       IN  IF r.raised # NoExc
               THEN Fail(call) /\ register_type' = register_type
               ELSE Step(call, "_private_register.parse") /\ register_type' = r.value
    /\ UNCHANGED <<request, data, user, github_me>>

\* private_branch with the test inverted.
private_branch_Inverted(rt) ==
    IF rt # "existing_user"
        THEN [parse   |-> "parse_private_register_for_existing_user_data",
              parsed  |-> parse_private_register_for_existing_user_data(DATA),
              service |-> "private_register_for_existing_user"]
        ELSE [parse   |-> "parse_private_register_for_new_user_data",
              parsed  |-> parse_private_register_for_new_user_data(DATA),
              service |-> "private_register_for_new_user"]

\* The parser and the service of each branch of `if register_type is ...`.
private_branch(rt) ==
    IF rt = "existing_user"
        THEN [parse   |-> "parse_private_register_for_existing_user_data",
              parsed  |-> parse_private_register_for_existing_user_data(DATA),
              service |-> "private_register_for_existing_user"]
        ELSE [parse   |-> "parse_private_register_for_new_user_data",
              parsed  |-> parse_private_register_for_new_user_data(DATA),
              service |-> "private_register_for_new_user"]

_private_register_parse ==
    /\ pc = "_private_register.parse"
    /\ LET b == private_branch(register_type)
           call == Event(b.parse, [data |-> DATA], NoResult, b.parsed.raised)
       IN  IF b.parsed.raised # NoExc
               THEN Fail(call) /\ data' = data
               ELSE Step(call, "_private_register.call") /\ data' = b.parsed.data
    /\ UNCHANGED <<request, register_type, user, github_me>>

\* user = private_register_for_existing_user(**data) or
\* user = private_register_for_new_user(**data): no except clause around them.
_private_register_call ==
    /\ pc = "_private_register.call"
    /\ LET fn == private_branch(register_type).service
       IN  \/ \E u \in Users :
                /\ Step(Event(fn, data, Returned(u), NoExc), "_private_register.respond")
                /\ user' = u
           \/ \E e \in ServiceErrors :
                /\ Fail(Event(fn, data, NoResult, e))
                /\ user' = user
    /\ UNCHANGED <<request, register_type, data, github_me>>

_private_register_respond ==
    /\ pc = "_private_register.respond"
    /\ respond(HTTP_201_CREATED)

-----------------------------------------------------------------------------
(* AuthViewSet.create: the login view *)

\* create without the permission check.
create_NoCheck ==
    /\ pc = "create"
    /\ pc' = "create.type"
    /\ UNCHANGED <<request, locals, trace, response>>

create ==
    /\ pc = "create"
    /\ check_permissions("create", "create.type")

\* Where `type` sends a login request.
create_route(type) ==
    IF type = Str("normal") THEN "_login"
    ELSE IF type = Str("github") THEN "_github_login"
    ELSE "BadRequest"

create_type_dispatch ==
    /\ pc = "create.type"
    /\ LET type == Get(DATA, "type")
           call(raised) == Event("request.DATA.get", [key |-> "type"], NoResult, raised)
       IN  IF create_route(type) = "BadRequest"
               THEN Fail(call(Exc("BadRequest", "invalid login type")))
               ELSE Step(call(NoExc), create_route(type))
    /\ UNCHANGED <<request, locals>>

-----------------------------------------------------------------------------
(* AuthViewSet._login *)

\* _login calling get_and_validate_user again when it raises.
_login_Retry ==
    /\ pc = "_login"
    /\ LET args == [username |-> Get(DATA, "username"),
                    password |-> Get(DATA, "password")]
       IN  \/ \E u \in Users :
                /\ Step(Event("get_and_validate_user", args, Returned(u), NoExc),
                        "_login.respond")
                /\ user' = u
           \/ \E e \in ServiceErrors :
                /\ Step(Event("get_and_validate_user", args, NoResult, e), "_login")
                /\ user' = user
    /\ UNCHANGED <<request, register_type, data, github_me>>

\* user = get_and_validate_user(username=username, password=password)
_login ==
    /\ pc = "_login"
    /\ LET args == [username |-> Get(DATA, "username"),
                    password |-> Get(DATA, "password")]
       IN  \/ \E u \in Users :
                /\ Step(Event("get_and_validate_user", args, Returned(u), NoExc),
                        "_login.respond")
                /\ user' = u
           \/ \E e \in ServiceErrors :
                /\ Fail(Event("get_and_validate_user", args, NoResult, e))
                /\ user' = user
    /\ UNCHANGED <<request, register_type, data, github_me>>

\* _login_respond with the status of the register views.
_login_respond_Created ==
    /\ pc = "_login.respond"
    /\ respond(HTTP_201_CREATED)

_login_respond ==
    /\ pc = "_login.respond"
    /\ respond(HTTP_200_OK)

-----------------------------------------------------------------------------
(* AuthViewSet._github_login *)

\* Exceptions github.me may raise.
ConnectorErrors == {Exc("GitHubApiError", "bad code")}

\* email, user_info = github.me(code)
_github_login ==
    /\ pc = "_github_login"
    /\ LET args == [code |-> Get(DATA, "code")]
       IN  \/ \E acc \in GithubAccounts :
                /\ Step(Event("github.me", args, [user |-> NoUser, account |-> acc], NoExc),
                        "_github_login.register")
                /\ github_me' = acc
           \/ \E e \in ConnectorErrors :
                /\ Fail(Event("github.me", args, NoResult, e))
                /\ github_me' = github_me
    /\ UNCHANGED <<request, register_type, data, user>>

\* github_register_args with github_id read from the wrong attribute.
github_register_args_Slip(token, me) ==
    [username  |-> me.user_info.username,
     email     |-> me.email,
     full_name |-> me.user_info.full_name,
     github_id |-> me.user_info.username,
     bio       |-> me.user_info.bio,
     token     |-> token]

\* The keyword arguments of github_register(...), token being
\* request.DATA.get('token', None).
github_register_args(token, me) ==
    [username  |-> me.user_info.username,
     email     |-> me.email,
     full_name |-> me.user_info.full_name,
     github_id |-> me.user_info.id,
     bio       |-> me.user_info.bio,
     token     |-> token]

\* _github_login_register going on to the response when github_register raises.
_github_login_register_Swallow ==
    /\ pc = "_github_login.register"
    /\ LET args == github_register_args(Get(DATA, "token"), github_me)
       IN  \/ \E u \in Users :
                /\ Step(Event("github_register", args, Returned(u), NoExc),
                        "_github_login.respond")
                /\ user' = u
           \/ \E e \in ServiceErrors :
                /\ Step(Event("github_register", args, NoResult, e),
                        "_github_login.respond")
                /\ user' = user
    /\ UNCHANGED <<request, register_type, data, github_me>>

_github_login_register ==
    /\ pc = "_github_login.register"
    /\ LET args == github_register_args(Get(DATA, "token"), github_me)
       IN  \/ \E u \in Users :
                /\ Step(Event("github_register", args, Returned(u), NoExc),
                        "_github_login.respond")
                /\ user' = u
           \/ \E e \in ServiceErrors :
                /\ Fail(Event("github_register", args, NoResult, e))
                /\ user' = user
    /\ UNCHANGED <<request, register_type, data, github_me>>

_github_login_respond ==
    /\ pc = "_github_login.respond"
    /\ respond(HTTP_200_OK)

-----------------------------------------------------------------------------
Next ==
    \/ Receive
    \/ Deliver
    \/ register
    \/ register_type_dispatch
    \/ _public_register
    \/ _public_register_parse
    \/ _public_register_call
    \/ _public_register_respond
    \/ _private_register
    \/ _private_register_parse
    \/ _private_register_call
    \/ _private_register_respond
    \/ create
    \/ create_type_dispatch
    \/ _login
    \/ _login_respond
    \/ _github_login
    \/ _github_login_register
    \/ _github_login_respond

Spec == Init /\ [][Next]_vars

-----------------------------------------------------------------------------
(* Vocabulary of the properties *)

Called(fn) == \E i \in DOMAIN trace : trace[i].fn = fn
Calls(fns) == {i \in DOMAIN trace : trace[i].fn \in fns}

RegisterServices ==
    {"public_register", "private_register_for_existing_user",
     "private_register_for_new_user"}
Services == RegisterServices \cup {"get_and_validate_user", "github_register"}

Done == pc = "done"
Forbidden == Raise(Exc("ForbiddenError", "permission denied"))
\* check_permissions raised in this request.
PermissionRefused == trace # <<>> /\ trace[1].raised # NoExc

-----------------------------------------------------------------------------
(* C1 *)

BadType ==
    \/ action = "register" /\ DATA.type \notin RegisterTypes
    \/ action = "create" /\ DATA.type \notin LoginTypes

InvalidTypeError ==
    Raise(Exc("BadRequest",
              IF action = "register" THEN "invalid register type"
                                     ELSE "invalid login type"))

NoServiceCalled ==
    Calls(Services \cup {"github.me", "make_auth_response_data"}) = {}

\* C1 as stated: every request whose `type` is missing or not allowed for its
\* operation ends in BadRequest ("invalid register type" / "invalid login
\* type"), and none of the services, github.me or make_auth_response_data is
\* called during the request.
C1_EveryBadTypeIsBadRequest ==
    BadType => /\ NoServiceCalled
               /\ Done => response = InvalidTypeError

\* C1 amended: a request whose `type` is missing or not allowed calls none of
\* the services, github.me or make_auth_response_data; it ends in
\* ForbiddenError when check_permissions refuses it and in BadRequest
\* ("invalid register type" / "invalid login type") otherwise.
C1_BadTypeRejected ==
    BadType => /\ NoServiceCalled
               /\ Done => response = IF PermissionRefused THEN Forbidden
                                                            ELSE InvalidTypeError

C1_Witness ==
    /\ Done /\ BadType /\ response = InvalidTypeError
    /\ Len(trace) = 2

-----------------------------------------------------------------------------
(* C2 *)

PublicDisabled ==
    /\ action = "register"
    /\ DATA.type = Str("public")
    /\ ~PUBLIC_REGISTER_ENABLED

DisabledError == Raise(Exc("BadRequest", "Public register is disabled."))

PublicUntouched ==
    Calls({"parse_public_register_data", "public_register"}) = {}

\* C2 as stated: a public Register request made while PUBLIC_REGISTER_ENABLED
\* is false always fails with 'Public register is disabled.', whether or not
\* the payload passes the public-register schema; the payload is not
\* validated and public_register is not called.
C2_DisabledAlwaysDisabledError ==
    PublicDisabled => /\ PublicUntouched
                      /\ Done => response = DisabledError

\* C2 amended: such a request never validates the payload and never calls
\* public_register; it ends in ForbiddenError when check_permissions refuses
\* it and in BadRequest 'Public register is disabled.' otherwise, whether or
\* not the payload passes the public-register schema.
C2_DisabledRejected ==
    PublicDisabled => /\ PublicUntouched
                      /\ Done => response = IF PermissionRefused THEN Forbidden
                                                                   ELSE DisabledError

\* A payload that passes the public-register schema, refused for the flag.
C2_Witness ==
    /\ Done /\ PublicDisabled /\ response = DisabledError
    /\ "PublicRegisterSerializer" \in passes

-----------------------------------------------------------------------------
(* C3 *)

PrivateRequest == action = "register" /\ DATA.type = Str("private")

ExistingUserPath ==
    {"parse_private_register_for_existing_user_data",
     "private_register_for_existing_user"}
NewUserPath ==
    {"parse_private_register_for_new_user_data",
     "private_register_for_new_user"}

\* C3: in private registration, the existing-user schema is validated and
\* private_register_for_existing_user called only when `existing` is true,
\* the new-user schema and private_register_for_new_user only when it is
\* false; a successful request has called the service of its path; no request
\* calls both private services and a private request never reaches the
\* public path.
C3_ExclusiveRouting ==
    /\ Calls(ExistingUserPath) # {} =>
           /\ PrivateRequest /\ DATA.existing = Bool(TRUE)
           /\ Calls(NewUserPath) = {}
    /\ Calls(NewUserPath) # {} =>
           /\ PrivateRequest /\ DATA.existing = Bool(FALSE)
           /\ Calls(ExistingUserPath) = {}
    /\ PrivateRequest /\ response.kind = "response" =>
           IF DATA.existing = Bool(TRUE)
               THEN Called("private_register_for_existing_user")
               ELSE Called("private_register_for_new_user")
    /\ PrivateRequest => PublicUntouched
    /\ ~(/\ Called("private_register_for_existing_user")
         /\ Called("private_register_for_new_user"))

C3_Witness ==
    /\ Done /\ PrivateRequest /\ DATA.existing = Bool(TRUE)
    /\ response.kind = "response"
    /\ Called("private_register_for_existing_user")
    /\ "PrivateRegisterForNewUserSerializer" \in passes

-----------------------------------------------------------------------------
(* C4 *)

BadExisting == PrivateRequest /\ DATA.existing \notin {Bool(TRUE), Bool(FALSE)}

ExistingError == Raise(Exc("RequestValidationError", "existing"))

\* C4 as stated: a private Register request whose `existing` is missing or not
\* a boolean fails with the validation error of the ad-hoc {existing: bool}
\* check, before either full private schema is validated, and calls neither
\* private service.
C4_BadExistingAlwaysValidationError ==
    BadExisting => /\ Calls(ExistingUserPath \cup NewUserPath) = {}
                   /\ Done => /\ response = ExistingError
                              /\ trace[Len(trace)].fn = "parse_register_type"

\* C4 amended: such a request validates neither full private schema and calls
\* neither private service; it ends in ForbiddenError when check_permissions
\* refuses it, and otherwise in the validation error raised by the ad-hoc
\* {existing: bool} check of parse_register_type.
C4_BadExistingRejected ==
    BadExisting =>
        /\ Calls(ExistingUserPath \cup NewUserPath) = {}
        /\ Done => IF PermissionRefused
                       THEN response = Forbidden
                       ELSE /\ response = ExistingError
                            /\ trace[Len(trace)].fn = "parse_register_type"

\* `existing` is missing, the new-user schema would accept the payload.
C4_Witness ==
    /\ Done /\ BadExisting /\ DATA.existing = Absent
    /\ response = ExistingError
    /\ "PrivateRegisterForNewUserSerializer" \in passes

-----------------------------------------------------------------------------
(* C5 *)

\* C5: the first step of every request is check_permissions with the action
\* of the handler ("register" or "create") and target None, and it is made
\* once; nothing (reading `type`, the flag, a validation, a service) precedes
\* it, and when it raises ForbiddenError the request ends there.
C5_PermissionFirst ==
    /\ pc \notin {"idle", "register", "create"} => trace # <<>>
    /\ trace # <<>> =>
           /\ trace[1].fn = "check_permissions"
           /\ trace[1].args = [action |-> action, obj |-> None]
           /\ action \in {"register", "create"}
           /\ Calls({"check_permissions"}) = {1}
    /\ PermissionRefused =>
           /\ Len(trace) = 1
           /\ Done /\ response = Forbidden

\* A request that would have been served is refused.
C5_Witness ==
    /\ Done /\ PermissionRefused /\ response = Forbidden
    /\ action = "create" /\ DATA.type = Str("normal")

-----------------------------------------------------------------------------
(* C6 *)

\* The service of the path `type` selects.
PathService ==
    IF action = "register"
        THEN IF DATA.type = Str("public") THEN "public_register"
             ELSE IF DATA.existing = Bool(TRUE)
                 THEN "private_register_for_existing_user"
                 ELSE "private_register_for_new_user"
        ELSE IF DATA.type = Str("normal") THEN "get_and_validate_user"
             ELSE "github_register"

\* C6: a request that completes successfully returns
\* make_auth_response_data(user), user being what the one service of its path
\* returned, with status 201 for Register and 200 for Login.
C6_SuccessResponse ==
    Done /\ response.kind = "response" =>
        /\ Cardinality(Calls(Services)) = 1
        /\ \A i \in Calls(Services) :
               /\ trace[i].fn = PathService
               /\ trace[i].result.user \in Users
               /\ response.data = make_auth_response_data(trace[i].result.user)
        /\ response.status = IF action = "register" THEN 201 ELSE 200

C6_Witness ==
    /\ Done /\ response.kind = "response"
    /\ action = "create" /\ DATA.type = Str("normal")
    /\ response.status = 200

-----------------------------------------------------------------------------
(* C7 *)

\* The register service call of this request raised IntegrityError.
IntegrityViolations ==
    {i \in Calls(RegisterServices) : trace[i].raised.exc = "IntegrityError"}

\* C7 as stated: a Register request whose service call reports an integrity
\* violation ends in BadRequest carrying the violation's detail and produces
\* no response payload, on the public path and on both private paths.
C7_IntegrityIsBadRequestOnEveryPath ==
    Done => \A i \in IntegrityViolations :
                /\ response = Raise(Exc("BadRequest", trace[i].raised.detail))
                /\ ~Called("make_auth_response_data")

\* C7 amended: such a request produces no response payload and ends in an
\* error carrying the violation's detail: on the public path the
\* IntegrityError is caught and BadRequest raised in its place; on both
\* private paths nothing catches it and the IntegrityError itself ends the
\* request.
C7_IntegrityPerPath ==
    Done => \A i \in IntegrityViolations :
                /\ response.kind = "raise"
                /\ response.detail = trace[i].raised.detail
                /\ response.exc = IF trace[i].fn = "public_register"
                                      THEN "BadRequest"
                                      ELSE "IntegrityError"
                /\ ~Called("make_auth_response_data")

C7_Witness ==
    /\ Done
    /\ \E i \in IntegrityViolations : trace[i].fn = "public_register"
    /\ response = Raise(Exc("BadRequest", "duplicate email"))

-----------------------------------------------------------------------------
(* C8 *)

\* A value is one of the attributes of user_info.
DrawnFrom(v, user_info) == \E k \in DOMAIN user_info : user_info[k] = v

\* C8 as stated: the six arguments of github_register are all drawn from the
\* user_info that github.me(code) returned.
C8_AllArgsFromUserInfo ==
    \A i \in Calls({"github_register"}) :
        \A k \in DOMAIN trace[i].args :
            DrawnFrom(trace[i].args[k], github_me.user_info)

\* C8 amended: github_register is called after github.me(code), code being the
\* payload's `code`; username, full_name, github_id and bio are the
\* attributes username, full_name, id and bio of the user_info it returned,
\* email is the email it returned beside user_info, and token is the payload's
\* `token` (None when the payload has none).
C8_ArgsOrigin ==
    \A i \in Calls({"github_register"}) :
        /\ \E j \in 1..(i - 1) :
               /\ trace[j].fn = "github.me"
               /\ trace[j].args.code = Get(DATA, "code")
               /\ trace[j].raised = NoExc
               /\ LET email == trace[j].result.account.email
                      user_info == trace[j].result.account.user_info
                  IN  /\ trace[i].args.username = user_info.username
                      /\ trace[i].args.full_name = user_info.full_name
                      /\ trace[i].args.github_id = user_info.id
                      /\ trace[i].args.bio = user_info.bio
                      /\ trace[i].args.email = email
        /\ trace[i].args.token = Get(DATA, "token")
        /\ DOMAIN trace[i].args =
               {"username", "email", "full_name", "github_id", "bio", "token"}

C8_Witness ==
    /\ Called("github_register")
    /\ DATA.token = <<"token", 1>>
    /\ github_me \in GithubAccounts

-----------------------------------------------------------------------------
(* C9 *)

GithubRequest == action = "create" /\ DATA.type = Str("github")

GithubOrder == <<"github.me", "github_register", "make_auth_response_data">>

\* The calls of the github path, in the order they were made.
GithubCalls ==
    SelectSeq(trace, LAMBDA e : e.fn \in {GithubOrder[1], GithubOrder[2], GithubOrder[3]})

Raised(fn) == \E i \in DOMAIN trace : trace[i].fn = fn /\ trace[i].raised # NoExc

\* C9: in github Login the calls are github.me, github_register,
\* make_auth_response_data in this order, each at most once; when github.me
\* raises, neither of the other two is called; when github_register raises,
\* make_auth_response_data is not called and no response is produced;
\* get_and_validate_user is never called.
C9_GithubOrder ==
    GithubRequest =>
        /\ Len(GithubCalls) <= 3
        /\ \A i \in DOMAIN GithubCalls : GithubCalls[i].fn = GithubOrder[i]
        /\ Raised("github.me") =>
               Calls({"github_register", "make_auth_response_data"}) = {}
        /\ Raised("github_register") =>
               /\ ~Called("make_auth_response_data")
               /\ Done /\ response.kind = "raise"
        /\ ~Called("get_and_validate_user")
        /\ response.kind = "response" =>
               /\ Len(GithubCalls) = 3
               /\ response.status = 200

C9_Witness ==
    /\ Done /\ GithubRequest
    /\ Raised("github_register")
    /\ Len(GithubCalls) = 2

-----------------------------------------------------------------------------
(* C10 *)

\* C10: a step that fails is the last step of its request: the request ends
\* in an error, make_auth_response_data is not called and no response payload
\* is produced (a normal Login refused by get_and_validate_user ends in the
\* error get_and_validate_user raised); and a request calls at most one of
\* the five services, at most once.
C10_ErrorsEndTheRequest ==
    /\ \A i \in DOMAIN trace :
           trace[i].raised # NoExc =>
               /\ i = Len(trace)
               /\ Done /\ response.kind = "raise"
               /\ trace[i].fn = "get_and_validate_user" =>
                      response = Raise(trace[i].raised)
    /\ response.kind = "raise" =>
           /\ trace[Len(trace)].raised # NoExc
           /\ ~Called("make_auth_response_data")
    /\ response.kind = "response" =>
           \A i \in DOMAIN trace : trace[i].raised = NoExc
    /\ Cardinality(Calls(Services)) <= 1

C10_Witness ==
    /\ Done /\ action = "create" /\ DATA.type = Str("normal")
    /\ Raised("get_and_validate_user")
    /\ response.kind = "raise" /\ response.exc = "WrongArguments"

====
